---------------------------- MODULE Spec2Model ----------------------------
(***************************************************************************)
(* Model of fcd's "Identify locals" pass (IdentifyLocals in                *)
(* src/fcd/executables/executable.cpp, lines 285-618): the recovery of a   *)
(* stack frame's type tree from the uses of the stack pointer argument.    *)
(*                                                                         *)
(* A function is a use-graph.  Value 0 is the stack pointer argument; the  *)
(* instructions are numbered 1..n.  Instruction i uses value operand[i]    *)
(* (operand[i] < i) and users(v) enumerates the users of v in ascending     *)
(* number; since every labelling is drawn, every enumeration order of a    *)
(* given set of uses occurs.  A cast instruction carries the set of types  *)
(* of the loads and stores that use it (what getPointerCastTypes collects);*)
(* readObject never looks at any other user of a cast, nor at the users of *)
(* anything but the stack pointer and the constant additions below it, so  *)
(* only those values have users in the drawn graphs.                       *)
(***************************************************************************)
EXTENDS Integers, Sequences, FiniteSets, TLC

VARIABLES fn, ndebug, pc, root, errs

vars == <<fn, ndebug, pc, root, errs>>

\* ------------------------------------------------------------------ bounds
MaxInsts == 3
MaxFields == 3

\* ----------------------------------------------------------- input domains
\* The load/store types drawn: integer types, named by their bit width.
Types == {8, 32}
Offsets == {-4, 0, 4}
FieldOffsets == {-4, 0, 4, 8}

stackPointer == 0
nullptr == -1

Null == [type |-> "Null"]

BinaryOperators == {"Add", "Sub"}
CastInsts == {"IntToPtr", "Trunc"}

\* Offsets are the signed 64-bit values of the constants
\* (constant->getLimitedValue() stored in an int64_t key); the values drawn
\* are far from the ends of the range, so pair.first - front never wraps.
\* The instructions that can use a value.  right is the other operand of a
\* binary operator: a constant integer (isConst) of value `value`, or not.
\* loadStoreTypes is the set of types of the loads/stores using a cast.
AddConst(c) == [opcode |-> "Add", isConst |-> TRUE, value |-> c, loadStoreTypes |-> {}]
AddVar == [opcode |-> "Add", isConst |-> FALSE, value |-> 0, loadStoreTypes |-> {}]
SubInst == [opcode |-> "Sub", isConst |-> FALSE, value |-> 0, loadStoreTypes |-> {}]
IntToPtr(ts) == [opcode |-> "IntToPtr", isConst |-> FALSE, value |-> 0, loadStoreTypes |-> ts]
TruncInst == [opcode |-> "Trunc", isConst |-> FALSE, value |-> 0, loadStoreTypes |-> {}]
CallInst == [opcode |-> "Call", isConst |-> FALSE, value |-> 0, loadStoreTypes |-> {}]

Insts ==
    {AddConst(c) : c \in Offsets} \cup {AddVar, SubInst, TruncInst, CallInst}
        \cup {IntToPtr(ts) : ts \in SUBSET Types}

\* ------------------------------------------------------------ small helpers
Min(S) == CHOOSE m \in S : \A x \in S : m <= x
Max(S) == CHOOSE m \in S : \A x \in S : x <= m

RECURSIVE SortedSeq(_)
SortedSeq(S) == IF S = {} THEN <<>> ELSE <<Min(S)>> \o SortedSeq(S \ {Min(S)})

\* base.users(): the instructions using value v, in enumeration order.
users(g, v) ==
    SelectSeq([i \in 1..Len(g.inst) |-> i], LAMBDA i : g.operand[i] = v)

\* std::map::insert: inserts only when the key is absent.
MapInsertOverwrite(m, k, v) == [x \in DOMAIN m \cup {k} |-> IF x = k THEN v ELSE m[x]]
MapInsert(m, k, v) == IF k \in DOMAIN m THEN m ELSE m @@ (k :> v)

EmptyMap == [x \in {} |-> nullptr]

\* getPointerCastTypes: the types of the loads and stores using the cast.
getPointerCastTypesAll(g, inst) == Types
getPointerCastTypes(g, inst) == g.inst[inst].loadStoreTypes

\* ------------------------------------------------------------ analyzeObject
\* One iteration of analyzeObject's loop over base.users().  acc.ok = FALSE
\* stands for the early `return false`.
analyzeUserVarIgnored(g, user, acc) ==
    LET i == g.inst[user] IN
    IF i.opcode \in BinaryOperators
    THEN IF i.opcode # "Add"
         THEN [acc EXCEPT !.ok = FALSE]
         ELSE IF i.isConst
              THEN [acc EXCEPT !.constantOffsets = MapInsert(@, i.value, user)]
              ELSE acc
    ELSE IF i.opcode \in CastInsts
         THEN IF i.opcode = "IntToPtr" THEN [acc EXCEPT !.castedAs = user] ELSE acc
         ELSE acc

analyzeUserAnyCast(g, user, acc) ==
    LET i == g.inst[user] IN
    IF i.opcode \in BinaryOperators
    THEN IF i.opcode # "Add"
         THEN [acc EXCEPT !.ok = FALSE]
         ELSE IF i.isConst
              THEN [acc EXCEPT !.constantOffsets = MapInsert(@, i.value, user)]
              ELSE [acc EXCEPT !.ok = FALSE]
    ELSE IF i.opcode \in CastInsts
         THEN [acc EXCEPT !.castedAs = user]
         ELSE acc

analyzeUser(g, user, acc) ==
    LET i == g.inst[user] IN
    IF i.opcode \in BinaryOperators
    THEN IF i.opcode # "Add"
         THEN [acc EXCEPT !.ok = FALSE]
         ELSE IF i.isConst
              THEN [acc EXCEPT !.constantOffsets = MapInsert(@, i.value, user)]
              ELSE [acc EXCEPT !.ok = FALSE]
    ELSE IF i.opcode \in CastInsts
         THEN IF i.opcode = "IntToPtr" THEN [acc EXCEPT !.castedAs = user] ELSE acc
         ELSE acc

RECURSIVE analyzeUsers(_, _, _)
analyzeUsers(g, us, acc) ==
    IF us = <<>> \/ ~acc.ok
    THEN acc
    ELSE analyzeUsers(g, Tail(us), analyzeUser(g, Head(us), acc))

\* analyzeObject(base, castedAs, constantOffsets, variableOffsetStrides):
\* ok is the returned bool, the other fields the out-parameters.
analyzeObject(g, base) ==
    analyzeUsers(g, users(g, base),
                 [ok |-> TRUE, castedAs |-> nullptr,
                  constantOffsets |-> EmptyMap, variableOffsetStrides |-> EmptyMap])

\* --------------------------------------------------------------- readObject
Object(cast) == [type |-> "Object", objectPointer |-> cast]

StructField(off, fieldType, next) ==
    [type |-> "StructField", offsetFromParent |-> off,
     structFieldType |-> fieldType, structNextField |-> next]

\* constantOffsets after the insertion of the implicit {0, nullptr} entry.
withOffset0(a) ==
    IF a.castedAs # nullptr THEN MapInsert(a.constantOffsets, 0, nullptr)
    ELSE a.constantOffsets

RECURSIVE readObject(_, _)
RECURSIVE structFields(_, _, _, _, _)

\* The loop over constantOffsets (ascending keys) that links one StructField
\* per member whose child was recovered.
structFieldsAbsolute(g, constantOffsets, keys, front, offset0) ==
    IF keys = <<>>
    THEN Null
    ELSE LET k == Head(keys)
             child == IF constantOffsets[k] = nullptr THEN offset0
                      ELSE readObject(g, constantOffsets[k])
             rest == structFields(g, constantOffsets, Tail(keys), front, offset0)
         IN IF child # Null THEN StructField(k, child, rest) ELSE rest

structFields(g, constantOffsets, keys, front, offset0) ==
    IF keys = <<>>
    THEN Null
    ELSE LET k == Head(keys)
             child == IF constantOffsets[k] = nullptr THEN offset0
                      ELSE readObject(g, constantOffsets[k])
             rest == structFields(g, constantOffsets, Tail(keys), front, offset0)
         IN IF child # Null THEN StructField(k - front, child, rest) ELSE rest

readObject(g, base) ==
    LET a == analyzeObject(g, base) IN
    IF ~a.ok
    THEN Null
    ELSE LET offset0 == IF a.castedAs # nullptr THEN Object(a.castedAs) ELSE Null
             constantOffsets == withOffset0(a)
         IN IF Cardinality(DOMAIN a.variableOffsetStrides) > 0
            THEN Null
            ELSE IF Cardinality(DOMAIN constantOffsets) > 0
                 THEN structFields(g, constantOffsets,
                                   SortedSeq(DOMAIN constantOffsets),
                                   Min(DOMAIN constantOffsets), offset0)
                 ELSE offset0

\* assert(front == 0 || back == 0 || signbit(front) == signbit(back)) holds
\* in every readObject call made while reading base.
RECURSIVE readObjectAsserts(_, _)
readObjectAsserts(g, base) ==
    LET a == analyzeObject(g, base)
        constantOffsets == withOffset0(a)
    IN IF ~a.ok \/ DOMAIN constantOffsets = {}
       THEN TRUE
       ELSE LET front == Min(DOMAIN constantOffsets)
                back == Max(DOMAIN constantOffsets)
            IN /\ (front = 0 \/ back = 0 \/ ((front < 0) <=> (back < 0)))
               /\ \A k \in DOMAIN constantOffsets :
                     constantOffsets[k] # nullptr
                         => readObjectAsserts(g, constantOffsets[k])

\* ------------------------------------------------ simplifyTrivialStructures
simplifyNoCollapse(obj) == obj

RECURSIVE simplifyTrivialStructures(_)
simplifyTrivialStructures(obj) ==
    IF obj = Null
    THEN Null
    ELSE IF obj.type = "StructField"
         THEN LET child == obj.structFieldType IN
              [obj EXCEPT
                 !.structFieldType =
                     IF /\ child.type = "StructField"
                        /\ child.structNextField = Null
                        /\ child.offsetFromParent = 0
                     THEN simplifyTrivialStructures(child.structFieldType)
                     ELSE child,
                 !.structNextField = simplifyTrivialStructures(obj.structNextField)]
         ELSE IF obj.type = "Array"
              THEN [obj EXCEPT !.arrayElementType = simplifyTrivialStructures(@)]
              ELSE obj

\* ------------------------------------------------------- StackObject::print
\* llvm::Type::print of an integer type: i8, i32.
TypePrint(t) == "i" \o ToString(t)

\* What a print call wrote: text, and whether it ran to its end (ok) or
\* stopped at text's end on the failure of assert(types.size() > 0).
Wrote(text) == [text |-> text, ok |-> TRUE]

\* Two writes in sequence: the second happens only if the first completed.
Then(a, b) == IF ~a.ok THEN a ELSE [text |-> a.text \o b.text, ok |-> b.ok]

\* The loop over the SmallPtrSet of types; order is its iteration order.
RECURSIVE printTypes(_, _, _)
printTypes(ts, order, first) ==
    IF order = <<>>
    THEN ""
    ELSE IF Head(order) \in ts
         THEN (IF first THEN "" ELSE ", ") \o TypePrint(Head(order))
                  \o printTypes(ts, Tail(order), FALSE)
         ELSE printTypes(ts, Tail(order), first)

RECURSIVE print(_, _, _)
RECURSIVE printNextFields(_, _, _)
printNextFields(g, item, order) ==
    IF item = Null
    THEN Wrote("")
    ELSE Then(Wrote(", " \o ToString(item.offsetFromParent) \o ": "),
         Then(print(g, item.structFieldType, order),
              printNextFields(g, item.structNextField, order)))

print(g, obj, order) ==
    IF obj.type = "Object"
    THEN LET types == getPointerCastTypes(g, obj.objectPointer) IN
         IF types = {}
         THEN [text |-> "(", ok |-> FALSE]
         ELSE Wrote("(" \o printTypes(types, order, TRUE) \o ")")
    ELSE IF obj.type = "Array"
         THEN Then(Wrote("[" \o ToString(obj.arrayMinKnownCount) \o " x "),
              Then(print(g, obj.arrayElementType, order), Wrote("]")))
         ELSE Then(Wrote("{" \o ToString(obj.offsetFromParent) \o ": "),
              Then(print(g, obj.structFieldType, order),
              Then(printNextFields(g, obj.structNextField, order), Wrote("}"))))

\* The Object nodes of a tree.
RECURSIVE Objects(_)
Objects(obj) ==
    IF obj = Null THEN {}
    ELSE IF obj.type = "Object" THEN {obj}
    ELSE IF obj.type = "Array" THEN Objects(obj.arrayElementType)
    ELSE Objects(obj.structFieldType) \cup Objects(obj.structNextField)

\* assert(types.size() > 0) holds for every Object printed.
printAsserts(g, obj) ==
    \A o \in Objects(obj) : getPointerCastTypes(g, o.objectPointer) # {}

TypeOrders == {s \in [1..Cardinality(Types) -> Types] : \A t \in Types : \E i \in DOMAIN s : s[i] = t}

\* ------------------------------------------------------------------- state
\* The values readObject can take as a base: the stack pointer and the
\* constant additions.
CanHaveUsers(inst, v) == v = stackPointer \/ (inst[v].opcode = "Add" /\ inst[v].isConst)

Operands(n) == {o \in [1..n -> 0..(n-1)] : \A i \in 1..n : o[i] < i}

Functions(n) ==
    {g \in {[inst |-> is, operand |-> os] : is \in [1..n -> Insts], os \in Operands(n)} :
        \A i \in 1..n : CanHaveUsers(g.inst, g.operand[i])}

Init ==
    /\ \E n \in 0..MaxInsts : fn \in Functions(n)
    /\ ndebug \in BOOLEAN
    /\ pc = "entry"
    /\ root = Null
    /\ errs = ""

\* A stack pointer whose only uses are additions of pairwise distinct
\* constants, each used only by an inttoptr cast loaded as one type.
FieldFunction(k, cs, ts) ==
    [inst |-> [i \in 1..(2*k) |-> IF i <= k THEN AddConst(cs[i]) ELSE IntToPtr({ts[i-k]})],
     operand |-> [i \in 1..(2*k) |-> IF i <= k THEN stackPointer ELSE i - k]]

FieldFunctions(k) ==
    {FieldFunction(k, cs, ts) :
        cs \in {c \in [1..k -> FieldOffsets] : \A i, j \in 1..k : i # j => c[i] # c[j]},
        ts \in [1..k -> Types]}

InitFields ==
    /\ \E k \in 1..MaxFields : fn \in FieldFunctions(k)
    /\ ndebug \in BOOLEAN
    /\ pc = "entry"
    /\ root = Null
    /\ errs = ""

\* ----------------------------------------------------------------- actions
\* runOnFunction, lines 589-593: the stack pointer query of the metadata.
GetStackPointer ==
    /\ pc = "entry"
    /\ \E found \in BOOLEAN : pc' = IF found THEN "readObject" ELSE "return"
    /\ UNCHANGED <<fn, ndebug, root, errs>>

\* runOnFunction, lines 595-597: the name is written and the tree is read.
ReadObject ==
    /\ pc = "readObject"
    /\ errs' = errs \o "fn: "
    /\ IF ~ndebug /\ ~readObjectAsserts(fn, stackPointer)
       THEN pc' = "abort" /\ root' = Null
       ELSE /\ root' = readObject(fn, stackPointer)
            /\ pc' = IF root' # Null THEN "simplify" ELSE "newline"
    /\ UNCHANGED <<fn, ndebug>>

\* runOnFunction, line 599.
Simplify ==
    /\ pc = "simplify"
    /\ root' = simplifyTrivialStructures(root)
    /\ pc' = "dump"
    /\ UNCHANGED <<fn, ndebug, errs>>

\* runOnFunction, lines 600-607: root->dump(), or the bare newline.  An
\* Object without types fails print's assertion after the text up to its
\* "(" was written; without assertions the dereference of types.begin() is
\* undefined: the process crashes, with or without garbage written first.
WriteReport ==
    /\ pc \in {"dump", "newline"}
    /\ IF pc = "newline"
       THEN errs' = errs \o "\n" /\ pc' = "return"
       ELSE \E order \in TypeOrders :
              LET out == print(fn, root, order) IN
              IF out.ok
              THEN errs' = errs \o out.text \o "\n" /\ pc' = "return"
              ELSE /\ pc' = "abort"
                   /\ IF ~ndebug
                      THEN errs' = errs \o out.text
                      ELSE \E garbage \in {"", "<undefined>"} :
                             errs' = errs \o out.text \o garbage
    /\ UNCHANGED <<fn, ndebug, root>>

Next == GetStackPointer \/ ReadObject \/ Simplify \/ WriteReport

Spec == Init /\ [][Next]_vars

SpecFields == InitFields /\ [][Next]_vars

TypeOK == pc \in {"entry", "readObject", "simplify", "dump", "newline", "return", "abort"}

\* ------------------------------------------------- vocabulary of the claims
\* root holds readObject's result, not yet simplified.
PostRead == pc \in {"simplify", "newline"}

\* The report of the function has been written.
Reported == pc = "return" /\ errs # ""

InstsOf(g) == 1..Len(g.inst)
DirectUses(g, b) == {u \in InstsOf(g) : g.operand[u] = b}
ConstAdds(g, b) == {u \in DirectUses(g, b) : g.inst[u].opcode = "Add" /\ g.inst[u].isConst}
VarAdds(g, b) == {u \in DirectUses(g, b) : g.inst[u].opcode = "Add" /\ ~g.inst[u].isConst}
OtherBinOps(g, b) == {u \in DirectUses(g, b) : g.inst[u].opcode = "Sub"}
PointerCasts(g, b) == {u \in DirectUses(g, b) : g.inst[u].opcode = "IntToPtr"}

\* Every direct cast of the base is loaded from or stored to.
CastsAccessed(g, b) == \A c \in PointerCasts(g, b) : g.inst[c].loadStoreTypes # {}

\* The offsets observed on a base: its constants, and 0 for a direct cast.
ObservedOffsets(g, b) ==
    {g.inst[u].value : u \in ConstAdds(g, b)}
        \cup (IF PointerCasts(g, b) # {} THEN {0} ELSE {})

\* The fields of a Struct as a sequence of <<offset, type>>.
RECURSIVE FieldList(_)
FieldList(obj) ==
    IF obj = Null \/ obj.type # "StructField"
    THEN <<>>
    ELSE <<(<<obj.offsetFromParent, obj.structFieldType>>)>> \o FieldList(obj.structNextField)

FieldOffsetsOf(obj) == [i \in DOMAIN FieldList(obj) |-> FieldList(obj)[i][1]]

\* The type of the field at an offset, Null when there is none.
FieldTypeAt(obj, off) ==
    LET fs == FieldList(obj)
        at == {i \in DOMAIN fs : fs[i][1] = off}
    IN IF at = {} THEN Null ELSE fs[Min(at)][2]

IsStruct(obj) == obj # Null /\ obj.type = "StructField"

\* A Struct with a single field, at relative offset 0.
IsSingleFieldAt0(obj) ==
    IsStruct(obj) /\ obj.structNextField = Null /\ obj.offsetFromParent = 0

\* The function without the use u: u no longer uses any value.
WithoutUse(g, u) == [g EXCEPT !.operand[u] = nullptr]

\* ----------------------------------------------------------------- C1
\* The stack pointer of a function of FieldFunctions: k additions of
\* distinct constants (instructions 1..k), addition i cast by k+i.
FieldCount == Len(fn.inst) \div 2
FieldConsts == {fn.inst[i].value : i \in 1..FieldCount}
FieldAddOf(c) == CHOOSE i \in 1..FieldCount : fn.inst[i].value = c
FieldTypeOf(c) == CHOOSE t \in Types : fn.inst[FieldCount + FieldAddOf(c)].loadStoreTypes = {t}

\* The spelling of a type in the statements as written: int8, int32.
SpecTypeName(t) == "int" \o ToString(t)

\* The rendering of one Scalar field per key, the types spelled by names.
RECURSIVE ExpectedFieldsText(_, _, _, _)
ExpectedFieldsText(names, keys, front, first) ==
    IF keys = <<>>
    THEN ""
    ELSE (IF first THEN "" ELSE ", ") \o ToString(Head(keys) - front) \o ": ("
             \o names[FieldTypeOf(Head(keys))] \o ")"
             \o ExpectedFieldsText(names, Tail(keys), front, FALSE)

\* The tree of such a function after readObject and
\* simplifyTrivialStructures: one field per constant, ascending, at the
\* constant minus the smallest constant, of type the Scalar {T_i} itself.
C1_Tree ==
    LET keys == SortedSeq(FieldConsts) IN
    (pc \in {"dump", "return"} /\ root # Null)
        => /\ FieldList(root) =
                 [j \in 1..FieldCount |->
                     <<keys[j] - keys[1], Object(FieldCount + FieldAddOf(keys[j]))>>]
           /\ \A o \in Objects(root) :
                 getPointerCastTypes(fn, o.objectPointer)
                     = {FieldTypeOf(fn.inst[fn.operand[o.objectPointer]].value)}

\* C1 as claimed: for a stack pointer used only by additions of pairwise
\* distinct constants, each cast to a pointer loaded as one type T_i, the
\* tree after readObject and simplifyTrivialStructures is a Struct with one
\* field per constant, ascending, at the constant minus the smallest
\* constant, of type the Scalar {T_i} itself, and {sp+0, sp+4} both loaded as
\* the 32-bit integer type is reported as {0: (int32), 4: (int32)}.
C1_Original ==
    LET keys == SortedSeq(FieldConsts) IN
    /\ C1_Tree
    /\ Reported
          => errs = "fn: {" \o ExpectedFieldsText([t \in Types |-> SpecTypeName(t)],
                                                   keys, keys[1], TRUE) \o "}\n"
    /\ (Reported /\ FieldConsts = {0, 4} /\ \A c \in FieldConsts : FieldTypeOf(c) = 32)
          => errs = "fn: {0: (int32), 4: (int32)}\n"

\* C1 amended: the same tree, each type rendered as llvm::Type::print writes
\* it: {sp+0, sp+4} both loaded as the 32-bit integer type is reported as
\* {0: (i32), 4: (i32)}.
C1_FieldsPerConstant ==
    LET keys == SortedSeq(FieldConsts) IN
    /\ C1_Tree
    /\ Reported
          => errs = "fn: {" \o ExpectedFieldsText([t \in Types |-> TypePrint(t)],
                                                   keys, keys[1], TRUE) \o "}\n"
    /\ (Reported /\ FieldConsts = {0, 4} /\ \A c \in FieldConsts : FieldTypeOf(c) = 32)
          => errs = "fn: {0: (i32), 4: (i32)}\n"

C1_Witness ==
    /\ Reported
    /\ FieldConsts = {0, 4, 8}
    /\ FieldOffsetsOf(root) = <<0, 4, 8>>
    /\ errs = "fn: {0: (i32), 4: (i8), 8: (i32)}\n"

\* ----------------------------------------------------------------- C2
\* The stack pointer's only direct use is an inttoptr cast with a single
\* load/store type.
OnlyCast(c, t) ==
    /\ DirectUses(fn, stackPointer) = {c}
    /\ fn.inst[c] = IntToPtr({t})

\* C2 as claimed: for a base whose only use is a cast loaded as T, readObject
\* returns the Scalar {T} and the report is (T), T spelled int8, int32.
C2_Original ==
    \A c \in InstsOf(fn), t \in Types :
        OnlyCast(c, t) =>
            /\ PostRead => root = Object(c)
            /\ Reported => errs = "fn: (" \o SpecTypeName(t) \o ")\n"

\* C2 amended: for a base whose only use is a cast loaded as T, readObject
\* returns a Struct whose single field, at offset 0, is the Scalar with type
\* set {T}, and the report is {0: (T)}, T as llvm::Type::print writes it.
C2_ScalarInStruct ==
    \A c \in InstsOf(fn), t \in Types :
        OnlyCast(c, t) =>
            /\ PostRead \/ pc = "dump" \/ Reported
                  => /\ root = StructField(0, Object(c), Null)
                     /\ getPointerCastTypes(fn, root.structFieldType.objectPointer) = {t}
            /\ Reported => errs = "fn: {0: (" \o TypePrint(t) \o ")}\n"

C2_Witness ==
    /\ Reported
    /\ OnlyCast(1, 8)
    /\ errs = "fn: {0: (i8)}\n"

\* ----------------------------------------------------------------- C3
\* A Struct with a single field at 0 whose type is a Struct with a single
\* field at 0.
IsDoubleWrapper(obj) == IsSingleFieldAt0(obj) /\ IsSingleFieldAt0(obj.structFieldType)

\* C3 as claimed: simplifyTrivialStructures of a single-field Struct at 0 of
\* a single-field Struct at 0 of type T is exactly T.
C3_Original ==
    [][(pc = "simplify" /\ IsDoubleWrapper(root))
          => root' = root.structFieldType.structFieldType]_vars

\* C3 amended: simplifyTrivialStructures of a single-field Struct at 0 of a
\* single-field Struct at 0 of type T is a single-field Struct at 0 whose
\* type is the simplified T (T itself when T is a Scalar): the intermediate
\* Struct is discarded, the outer one stays.
C3_CollapseIntermediate ==
    [][(pc = "simplify" /\ IsDoubleWrapper(root))
          => LET T == root.structFieldType.structFieldType IN
             /\ root' = StructField(0, simplifyTrivialStructures(T), Null)
             /\ T.type = "Object" => root' = StructField(0, T, Null)]_vars

C3_Witness ==
    /\ pc = "dump"
    /\ IsDoubleWrapper(readObject(fn, stackPointer))
    /\ root = StructField(0, readObject(fn, stackPointer).structFieldType.structFieldType, Null)
    /\ root.structFieldType.type = "Object"

\* ----------------------------------------------------------------- C4
\* C4: simplifyTrivialStructures is idempotent on the trees readObject
\* produces: a second run on the simplified tree changes neither the tree
\* nor its rendering.
C4_Idempotent ==
    pc = "dump" =>
        /\ simplifyTrivialStructures(root) = root
        /\ printAsserts(fn, root) =>
              \A order \in TypeOrders :
                  print(fn, simplifyTrivialStructures(root), order) = print(fn, root, order)

\* ----------------------------------------------------------------- C5
\* C5: a base with a direct use that adds a non-constant is unrecoverable,
\* whatever its other uses and wherever the use is enumerated; for the stack
\* pointer the report line is empty.
C5_VariableOffsetUnrecoverable ==
    /\ \A b \in {stackPointer} \cup InstsOf(fn) :
          VarAdds(fn, b) # {} => readObject(fn, b) = Null
    /\ VarAdds(fn, stackPointer) # {} =>
          /\ root = Null
          /\ pc \notin {"simplify", "dump"}
          /\ Reported => errs = "fn: \n"

C5_Witness ==
    /\ Reported
    /\ errs = "fn: \n"
    /\ \E v \in VarAdds(fn, stackPointer), u \in ConstAdds(fn, stackPointer) :
          u < v /\ readObject(fn, u) # Null

\* ----------------------------------------------------------------- C6
\* C6: when every constant-offset member of a base fails to recurse but the
\* base has a direct cast, readObject returns that Scalar unwrapped; stated
\* for the case the claim singles out, an addition of the constant 0 next to
\* the direct cast (a cast that is loaded or stored).
C6_ScalarFallback ==
    (/\ PostRead
     /\ VarAdds(fn, stackPointer) = {} /\ OtherBinOps(fn, stackPointer) = {}
     /\ PointerCasts(fn, stackPointer) # {} /\ CastsAccessed(fn, stackPointer)
     /\ \E u \in ConstAdds(fn, stackPointer) : fn.inst[u].value = 0
     /\ \A u \in ConstAdds(fn, stackPointer) : readObject(fn, u) = Null)
        => root \in {Object(c) : c \in PointerCasts(fn, stackPointer)}

\* ----------------------------------------------------------------- C7
\* The additions of the constant c to the stack pointer.
AddsOf(c) == {u \in ConstAdds(fn, stackPointer) : fn.inst[u].value = c}

\* analyzeObject succeeds on the stack pointer.
Recognized == VarAdds(fn, stackPointer) = {} /\ OtherBinOps(fn, stackPointer) = {}

\* The map entry of c, and the field built for it, come from the use u.
EntryIs(c, u) ==
    /\ analyzeObject(fn, stackPointer).constantOffsets[c] = u
    /\ FieldTypeAt(root, c - Min(ObservedOffsets(fn, stackPointer))) = readObject(fn, u)

\* C7 as claimed: of two additions of the same constant to a base, the map
\* entry, and the field built for it, is the one enumerated last.
C7_Original ==
    \A c \in Offsets :
        (PostRead /\ Recognized /\ Cardinality(AddsOf(c)) >= 2) => EntryIs(c, Max(AddsOf(c)))

\* C7 amended: of two additions of the same constant to a base, the map
\* entry, and the field built for it, is the one enumerated first.
C7_FirstWins ==
    \A c \in Offsets :
        (PostRead /\ Recognized /\ Cardinality(AddsOf(c)) >= 2) => EntryIs(c, Min(AddsOf(c)))

C7_Witness ==
    /\ PostRead /\ Recognized
    /\ Cardinality(AddsOf(4)) >= 2
    /\ readObject(fn, Max(AddsOf(4))) = Null
    /\ IsStruct(readObject(fn, Min(AddsOf(4))))
    /\ FieldTypeAt(root, 0) = readObject(fn, Min(AddsOf(4)))

\* ----------------------------------------------------------------- C8
\* C8 as claimed: a direct use that is neither an addition nor a cast to a
\* pointer is ignored: removing it does not change readObject's result.
C8_Original ==
    \A u \in DirectUses(fn, stackPointer) :
        (PostRead /\ fn.inst[u].opcode \notin {"Add", "IntToPtr"})
            => root = readObject(WithoutUse(fn, u), stackPointer)

\* C8 amended: a direct use that is neither a binary operator nor a cast to
\* a pointer is ignored: removing it does not change readObject's result; a
\* binary operator other than an addition makes the base unrecoverable.
C8_NonBinaryIgnored ==
    /\ \A u \in DirectUses(fn, stackPointer) :
          (PostRead /\ fn.inst[u].opcode \notin BinaryOperators \cup {"IntToPtr"})
              => root = readObject(WithoutUse(fn, u), stackPointer)
    /\ \A b \in {stackPointer} \cup InstsOf(fn) : \A u \in DirectUses(fn, b) :
          /\ fn.inst[u].opcode \notin BinaryOperators \cup {"IntToPtr"}
                => readObject(fn, b) = readObject(WithoutUse(fn, u), b)
          /\ fn.inst[u].opcode \in BinaryOperators \ {"Add"} => readObject(fn, b) = Null

C8_Witness ==
    /\ PostRead
    /\ IsStruct(root)
    /\ \E u, v \in DirectUses(fn, stackPointer) :
          /\ fn.inst[u].opcode = "Trunc" /\ fn.inst[v].opcode = "IntToPtr" /\ v < u
          /\ root = readObject(WithoutUse(fn, u), stackPointer)

\* ----------------------------------------------------------------- C9
\* C9: every Scalar node of a tree readObject produces has a non-empty type
\* set, so print's assertion types.size() > 0 holds.
C9_NonEmptyTypes ==
    /\ \A o \in Objects(root) : getPointerCastTypes(fn, o.objectPointer) # {}
    /\ pc = "dump" => printAsserts(fn, root)

\* ----------------------------------------------------------------- C10
\* The member at offset k of the stack pointer's group was recovered.
MemberSucceeded(k) ==
    \/ \E u \in AddsOf(k) : readObject(fn, u) # Null
    \/ k = 0 /\ PointerCasts(fn, stackPointer) # {}

\* C10: for a base with constant-offset uses and no variable-offset use the
\* Struct has a field for exactly the offsets whose member was recovered
\* (recursion or the offset-0 scalar), each at the offset minus the minimum
\* over all observed offsets; a failed member removes only its own field.
\* Stated for bases with pairwise distinct constants, no other binary
\* operator and every direct cast loaded or stored.
C10_FailureAbsorbed ==
    (/\ PostRead /\ Recognized
     /\ ConstAdds(fn, stackPointer) # {} /\ CastsAccessed(fn, stackPointer)
     /\ \A c \in Offsets : Cardinality(AddsOf(c)) <= 1)
        => LET observed == ObservedOffsets(fn, stackPointer)
               front == Min(observed)
           IN /\ FieldOffsetsOf(root)
                    = SortedSeq({k - front : k \in {o \in observed : MemberSucceeded(o)}})
              /\ (\E k \in observed : MemberSucceeded(k)) => root # Null
=============================================================================
